---- MODULE Spec2Model ----
(***************************************************************************)
(* A model of gravity.cc: three point masses under mutual Newtonian        *)
(* attraction, integrated by semi-implicit Euler steps, with periodic      *)
(* reports.                                                                *)
(*                                                                         *)
(* Real (cpp_dec_float_50) is a decimal floating-point type of finite      *)
(* precision whose operations truncate.  It is modelled by a decimal       *)
(* floating-point number [m, e] = m * 10^e with Digits significant digits  *)
(* and truncation toward zero; Digits is scaled down from 50 so that       *)
(* every intermediate product fits the model checker's integers.           *)
(***************************************************************************)
EXTENDS Integers, Naturals, Sequences, FiniteSets, TLC

\* ------------------------------------------------------------- bounds

\* Significant decimal digits of Real in the model (50 in the program).
Digits == 3

\* total_steps ranges over 100, 200, ..., 100 * MaxHundreds.
MaxHundreds == 2

\* Magnitude of the integer inputs drawn for the pure functions.
MaxIn == 2

\* ------------------------------------------------- Real: decimal floats

RECURSIVE Pow10(_)
Pow10(n) == IF n <= 0 THEN 1 ELSE 10 * Pow10(n - 1)

Abs(n) == IF n < 0 THEN -n ELSE n

Sgn(n) == IF n < 0 THEN -1 ELSE IF n = 0 THEN 0 ELSE 1

\* The normalised number of sign s and magnitude mag * 10^e: the mantissa
\* keeps Digits digits, the digits beyond them are dropped (truncation).
RECURSIVE NormMag(_, _, _)
NormMag(s, mag, e) ==
    IF mag = 0 THEN [m |-> 0, e |-> 0]
    ELSE IF mag >= Pow10(Digits) THEN NormMag(s, mag \div 10, e + 1)
    ELSE IF mag < Pow10(Digits - 1) THEN NormMag(s, mag * 10, e - 1)
    ELSE [m |-> s * mag, e |-> e]

\* The Real nearest (toward zero) to the decimal literal n * 10^e.
Lit(n, e) == NormMag(Sgn(n), Abs(n), e)

Zero == Lit(0, 0)

One == Lit(1, 0)

FNeg(a) == [m |-> -a.m, e |-> a.e]

FAbs(a) == [m |-> Abs(a.m), e |-> a.e]

FMul(a, b) == NormMag(Sgn(a.m) * Sgn(b.m), Abs(a.m) * Abs(b.m), a.e + b.e)

\* a / b for b # 0 (the program never divides by zero on the inputs modelled).
FDiv(a, b) ==
    NormMag(Sgn(a.m) * Sgn(b.m), (Abs(a.m) * Pow10(Digits)) \div Abs(b.m),
            a.e - b.e - Digits)

\* a + b: the operands are aligned on the smaller exponent and the sum is
\* truncated; an operand too small to reach the other's digits is dropped.
FAdd(a, b) ==
    IF a.m = 0 THEN b
    ELSE IF b.m = 0 THEN a
    ELSE LET hi == IF a.e >= b.e THEN a ELSE b
             lo == IF a.e >= b.e THEN b ELSE a
             d  == hi.e - lo.e
         IN  IF d >= Digits THEN hi
             ELSE LET sum == hi.m * Pow10(d) + lo.m
                  IN  NormMag(Sgn(sum), Abs(sum), lo.e)

FSub(a, b) == FAdd(a, FNeg(b))

\* The sign of a - b computed exactly (no rounding): -1, 0 or 1.
FCmp(a, b) ==
    IF a.m = 0 THEN -Sgn(b.m)
    ELSE IF b.m = 0 THEN Sgn(a.m)
    ELSE IF Sgn(a.m) # Sgn(b.m) THEN Sgn(a.m)
    ELSE IF a.e # b.e THEN (IF a.e > b.e THEN Sgn(a.m) ELSE -Sgn(a.m))
    ELSE Sgn(a.m - b.m)

\* The integer square root: the largest r with r * r <= n.
RECURSIVE IsqrtFrom(_, _)
IsqrtFrom(n, r) ==
    LET nx == (r + n \div r) \div 2
    IN  IF nx >= r THEN r ELSE IsqrtFrom(n, nx)

Isqrt(n) == IF n = 0 THEN 0 ELSE IsqrtFrom(n, n)

\* sqrt(a) for a >= 0, truncated.
FSqrt(a) ==
    IF a.m <= 0 THEN Zero
    ELSE LET k == IF (a.e - Digits) % 2 = 0 THEN Digits ELSE Digits + 1
         IN  NormMag(1, Isqrt(a.m * Pow10(k)), (a.e - k) \div 2)

\* ------------------------------------------------------ the program

\* G = 6.67430e-11, to the model's precision.
G == Lit(667430, -16)

\* A slip in the interval: a tenth of the run instead of a hundredth.
steps_per_print_Tenth(total) == total \div 10

\* steps_per_print = total_steps / 100 (int division).
steps_per_print(total) == total \div 100

\* The time step main passes to Update.
MainDt == Lit(1, -2)

\* Entity(mass, x, y): velocity and acceleration start at zero.
Entity(mass, x, y) ==
    [mass |-> mass, x |-> x, y |-> y,
     v_x |-> Zero, v_y |-> Zero, a_x |-> Zero, a_y |-> Zero]

\* Update that forgets to reset the accumulator.
Update_NoReset(e, dt) ==
    LET nvx == FAdd(e.v_x, FMul(e.a_x, dt))
        nvy == FAdd(e.v_y, FMul(e.a_y, dt))
    IN  [e EXCEPT !.v_x = nvx, !.v_y = nvy,
                  !.x = FAdd(e.x, FMul(nvx, dt)),
                  !.y = FAdd(e.y, FMul(nvy, dt))]

\* Update that advances the position with the old velocity (explicit Euler).
Update_OldVelocity(e, dt) ==
    [e EXCEPT !.v_x = FAdd(e.v_x, FMul(e.a_x, dt)),
              !.v_y = FAdd(e.v_y, FMul(e.a_y, dt)),
              !.x = FAdd(e.x, FMul(e.v_x, dt)),
              !.y = FAdd(e.y, FMul(e.v_y, dt)),
              !.a_x = Zero, !.a_y = Zero]

\* Entity::Update(dt): v += a * dt; x += v * dt (the new v); a = 0.
Update(e, dt) ==
    LET nvx == FAdd(e.v_x, FMul(e.a_x, dt))
        nvy == FAdd(e.v_y, FMul(e.a_y, dt))
    IN  [e EXCEPT !.v_x = nvx, !.v_y = nvy,
                  !.x = FAdd(e.x, FMul(nvx, dt)),
                  !.y = FAdd(e.y, FMul(nvy, dt)),
                  !.a_x = Zero, !.a_y = Zero]

\* Get_attraction that takes the first entity's mass twice.
Get_attraction_OwnMass(a, b) ==
    LET dx == FSub(b.x, a.x)
        dy == FSub(b.y, a.y)
        d_squared == FAdd(FMul(dx, dx), FMul(dy, dy))
    IN  FDiv(FMul(FMul(G, a.mass), a.mass), d_squared)

\* Get_attraction(a, b): G * a.mass * b.mass / d_squared, left to right.
Get_attraction(a, b) ==
    LET dx == FSub(b.x, a.x)
        dy == FSub(b.y, a.y)
        d_squared == FAdd(FMul(dx, dx), FMul(dy, dy))
    IN  FDiv(FMul(FMul(G, a.mass), b.mass), d_squared)

\* atan2(dy, dx): the angle is represented by the vector that defines it,
\* with its length; atan2(0, 0) is the angle 0.
Atan2(dy, dx) ==
    IF dx.m = 0 /\ dy.m = 0 THEN [dx |-> One, dy |-> Zero, r |-> One]
    ELSE [dx |-> dx, dy |-> dy,
          r |-> FSqrt(FAdd(FMul(dx, dx), FMul(dy, dy)))]

\* A ratio of magnitude at most 1, as cos and sin return.
Unit(q) == IF FCmp(FAbs(q), One) > 0 THEN Lit(Sgn(q.m), 0) ELSE q

\* cos(theta) and sin(theta) of an angle made by Atan2, truncated.
Cos(theta) == Unit(FDiv(theta.dx, theta.r))

Sin(theta) == Unit(FDiv(theta.dy, theta.r))

\* The components Add_force resolves the force into.
ForceXY(entity_1, entity_2, f) ==
    LET theta == Atan2(FSub(entity_1.y, entity_2.y), FSub(entity_1.x, entity_2.x))
    IN  [x |-> FMul(f, Cos(theta)), y |-> FMul(f, Sin(theta))]

\* Add_force with the same sign for both entities.
Add_force_SameSign(entity_1, entity_2, f) ==
    LET c == ForceXY(entity_1, entity_2, f)
    IN  << [entity_1 EXCEPT
              !.a_x = FAdd(entity_1.a_x, FDiv(c.x, entity_1.mass)),
              !.a_y = FAdd(entity_1.a_y, FDiv(c.y, entity_1.mass))],
           [entity_2 EXCEPT
              !.a_x = FAdd(entity_2.a_x, FDiv(c.x, entity_2.mass)),
              !.a_y = FAdd(entity_2.a_y, FDiv(c.y, entity_2.mass))] >>

\* Add_force with the signs exchanged: the entities repel.
Add_force_Repulsive(entity_1, entity_2, f) ==
    LET c == ForceXY(entity_1, entity_2, f)
    IN  << [entity_1 EXCEPT
              !.a_x = FAdd(entity_1.a_x, FDiv(c.x, entity_1.mass)),
              !.a_y = FAdd(entity_1.a_y, FDiv(c.y, entity_1.mass))],
           [entity_2 EXCEPT
              !.a_x = FSub(entity_2.a_x, FDiv(c.x, entity_2.mass)),
              !.a_y = FSub(entity_2.a_y, FDiv(c.y, entity_2.mass))] >>

\* Add_force that divides both contributions by entity_1's mass.
Add_force_OneMass(entity_1, entity_2, f) ==
    LET c == ForceXY(entity_1, entity_2, f)
    IN  << [entity_1 EXCEPT
              !.a_x = FSub(entity_1.a_x, FDiv(c.x, entity_1.mass)),
              !.a_y = FSub(entity_1.a_y, FDiv(c.y, entity_1.mass))],
           [entity_2 EXCEPT
              !.a_x = FAdd(entity_2.a_x, FDiv(c.x, entity_1.mass)),
              !.a_y = FAdd(entity_2.a_y, FDiv(c.y, entity_1.mass))] >>

\* Add_force that adds the contributions to the velocities.
Add_force_IntoVelocity(entity_1, entity_2, f) ==
    LET c == ForceXY(entity_1, entity_2, f)
    IN  << [entity_1 EXCEPT
              !.v_x = FSub(entity_1.v_x, FDiv(c.x, entity_1.mass)),
              !.v_y = FSub(entity_1.v_y, FDiv(c.y, entity_1.mass))],
           [entity_2 EXCEPT
              !.v_x = FAdd(entity_2.v_x, FDiv(c.x, entity_2.mass)),
              !.v_y = FAdd(entity_2.v_y, FDiv(c.y, entity_2.mass))] >>

\* Add_force(entity_1, entity_2, force): the pair <<entity_1, entity_2>>
\* after the call.
Add_force(entity_1, entity_2, f) ==
    LET dx == FSub(entity_1.x, entity_2.x)
        dy == FSub(entity_1.y, entity_2.y)
        theta == Atan2(dy, dx)
        f_x == FMul(f, Cos(theta))
        f_y == FMul(f, Sin(theta))
    IN  << [entity_1 EXCEPT
              !.a_x = FSub(entity_1.a_x, FDiv(f_x, entity_1.mass)),
              !.a_y = FSub(entity_1.a_y, FDiv(f_y, entity_1.mass))],
           [entity_2 EXCEPT
              !.a_x = FAdd(entity_2.a_x, FDiv(f_x, entity_2.mass)),
              !.a_y = FAdd(entity_2.a_y, FDiv(f_y, entity_2.mass))] >>

\* One entity as operator<< shows it: position and speed (the angle in
\* degrees is a function of the same velocity and is not modelled).
Show(e) ==
    [x |-> e.x, y |-> e.y,
     speed |-> FSqrt(FAdd(FMul(e.v_x, e.v_x), FMul(e.v_y, e.v_y)))]

\* A report line: the entities in the order of the vector.
ShowAll(es) == [n \in 1..Len(es) |-> Show(es[n])]

\* The entities main constructs.
MainEntities ==
    << Entity(Lit(1, 0), Lit(-1, 0), Lit(0, 0)),
       Entity(Lit(1, 0), Lit(1, 0), Lit(0, 0)),
       Entity(Lit(2, 0), Lit(1, 0), Lit(1, 0)) >>

\* The report condition counting steps from one: after every k-th step.
ShouldPrint_OneBased(step, total) == (step + 1) % steps_per_print(total) = 0

\* The condition of main's report inside the step loop.
ShouldPrint(step, total) == step % steps_per_print(total) = 0

VARIABLES
    entities,     \* the vector of entities
    total_steps,  \* the number of steps of the run
    i,            \* main's step counter
    pc,           \* main's position
    outer,        \* index of the outer iterator (1-based)
    inner,        \* index of the inner iterator
    upd,          \* index of the entity the update loop is at
    force,        \* the local `force` of the pair loop
    out,          \* the report lines written so far, with where each was written
    calls,        \* the calls of the current step: function and the indices of its two arguments
    snap,         \* the entities as they were when the current step (or call) began
    dt,           \* the time step passed to Update
    rev           \* Get_attraction with the arguments exchanged (pure-function runs)

vars == <<entities, total_steps, i, pc, outer, inner, upd, force, out, calls,
          snap, dt, rev>>

N == Len(entities)

\* ---------------------------------------------------------------- main

\* total_steps is 1000000 in the program; the model runs the same loop for
\* the smaller multiples of 100, with steps_per_print derived from it.
Init ==
    /\ entities = MainEntities
    /\ total_steps \in {100 * h : h \in 1..MaxHundreds}
    /\ i = 0
    /\ pc = "start"
    /\ outer = 1
    /\ inner = 1
    /\ upd = 1
    /\ force = Zero
    /\ out = <<>>
    /\ calls = <<>>
    /\ snap = MainEntities
    /\ dt = MainDt
    /\ rev = Zero

\* std::cout << entities << std::endl, before the loop.
PrintInitial ==
    /\ pc = "start"
    /\ out' = Append(out, [at |-> "initial", step |-> 0, line |-> ShowAll(entities)])
    /\ pc' = "for"
    /\ UNCHANGED <<entities, total_steps, i, outer, inner, upd, force, calls, snap, dt, rev>>

\* for (i ...; i < total_steps; ...): enter the body, outer = entities.begin().
StepBegin ==
    /\ pc = "for"
    /\ i < total_steps
    /\ outer' = 1
    /\ calls' = <<>>
    /\ snap' = entities
    /\ pc' = "outer"
    /\ UNCHANGED <<entities, total_steps, i, inner, upd, force, out, dt, rev>>

\* outer != entities.end(): inner = entities.begin(); else on to the updates.
OuterTest ==
    /\ pc = "outer"
    /\ IF outer <= N
       THEN inner' = 1 /\ pc' = "inner" /\ upd' = upd
       ELSE upd' = 1 /\ pc' = "update" /\ inner' = inner
    /\ UNCHANGED <<entities, total_steps, i, outer, force, out, calls, snap, dt, rev>>

\* An inner loop over the whole vector that skips only inner = outer: every
\* ordered pair, so each unordered pair twice.
InnerTest_BothOrders ==
    /\ pc = "inner"
    /\ IF inner > N
       THEN pc' = "outer" /\ outer' = outer + 1 /\ inner' = inner
       ELSE IF inner = outer
            THEN pc' = pc /\ outer' = outer /\ inner' = inner + 1
            ELSE pc' = "attract" /\ outer' = outer /\ inner' = inner
    /\ UNCHANGED <<entities, total_steps, i, upd, force, out, calls, snap, dt, rev>>

\* inner != outer: into the pair's body; else ++outer.
InnerTest ==
    /\ pc = "inner"
    /\ IF inner # outer
       THEN pc' = "attract" /\ outer' = outer
       ELSE pc' = "outer" /\ outer' = outer + 1
    /\ UNCHANGED <<entities, total_steps, i, inner, upd, force, out, calls, snap, dt, rev>>

\* auto force = Get_attraction(*outer, *inner).
Attract ==
    /\ pc = "attract"
    /\ force' = Get_attraction(entities[outer], entities[inner])
    /\ calls' = Append(calls, [fn |-> "Get_attraction", a |-> outer, b |-> inner])
    /\ pc' = "add"
    /\ UNCHANGED <<entities, total_steps, i, outer, inner, upd, out, snap, dt, rev>>

\* Add_force(*inner, *outer, force); ++inner.
AddForce ==
    /\ pc = "add"
    /\ LET r == Add_force(entities[inner], entities[outer], force)
       IN  entities' = [entities EXCEPT ![inner] = r[1], ![outer] = r[2]]
    /\ calls' = Append(calls, [fn |-> "Add_force", a |-> inner, b |-> outer])
    /\ inner' = inner + 1
    /\ pc' = "inner"
    /\ UNCHANGED <<total_steps, i, outer, upd, force, out, snap, dt, rev>>

\* for (auto &e : entities) e.Update(0.01), one entity at a time.
UpdateOne ==
    /\ pc = "update"
    /\ upd <= N
    /\ entities' = [entities EXCEPT ![upd] = Update(entities[upd], dt)]
    /\ upd' = upd + 1
    /\ UNCHANGED <<total_steps, i, pc, outer, inner, force, out, calls, snap, dt, rev>>

\* if (i % steps_per_print == 0) report; ++i.
PrintStep ==
    /\ pc = "update"
    /\ upd > N
    /\ out' = IF ShouldPrint(i, total_steps)
              THEN Append(out, [at |-> "step", step |-> i, line |-> ShowAll(entities)])
              ELSE out
    /\ i' = i + 1
    /\ pc' = "for"
    /\ UNCHANGED <<entities, total_steps, outer, inner, upd, force, calls, snap, dt, rev>>

\* The loop is over: std::cout << entities << std::endl; return 0.
PrintFinal ==
    /\ pc = "for"
    /\ i >= total_steps
    /\ out' = Append(out, [at |-> "final", step |-> i, line |-> ShowAll(entities)])
    /\ pc' = "done"
    /\ UNCHANGED <<entities, total_steps, i, outer, inner, upd, force, calls, snap, dt, rev>>

Next ==
    \/ PrintInitial
    \/ StepBegin
    \/ OuterTest
    \/ InnerTest
    \/ Attract
    \/ AddForce
    \/ UpdateOne
    \/ PrintStep
    \/ PrintFinal

Spec == Init /\ [][Next]_vars

\* ------------------------------- Entity::Update on arbitrary entities

\* Values drawn for positions, velocities and accelerations.
UVals == {Lit(n, 0) : n \in -MaxIn..MaxIn} \cup {Lit(333, -3), Lit(-15, -1)}

UValsY == {Zero, Lit(-333, -3)}

\* Time steps drawn for Update: 1, main's 0.01, and 0.3.
DtVals == {One, MainDt, Lit(3, -1)}

InitUpdate ==
    /\ \E x, vx, ax \in UVals : \E vy, ay \in UValsY :
          entities = << [mass |-> One, x |-> x, y |-> Zero,
                         v_x |-> vx, v_y |-> vy, a_x |-> ax, a_y |-> ay] >>
    /\ dt \in DtVals
    /\ snap = entities
    /\ total_steps = 100
    /\ i = 0
    /\ pc = "call_update"
    /\ outer = 1
    /\ inner = 1
    /\ upd = 1
    /\ force = Zero
    /\ out = <<>>
    /\ calls = <<>>
    /\ rev = Zero

\* e.Update(dt) on the entity drawn.
CallUpdate ==
    /\ pc = "call_update"
    /\ entities' = << Update(entities[1], dt) >>
    /\ pc' = "updated"
    /\ UNCHANGED <<total_steps, i, outer, inner, upd, force, out, calls, snap, dt, rev>>

NextUpdate == CallUpdate

SpecUpdate == InitUpdate /\ [][NextUpdate]_vars

\* ------------------- Get_attraction and Add_force on arbitrary entities

\* Masses drawn: 1 .. MaxIn + 1, and 7.
MassVals == {Lit(n, 0) : n \in 1..(MaxIn + 1)} \cup {Lit(7, 0)}

\* Positions drawn for the first entity, and offsets of the second from it.
Origins == {<<Zero, Zero>>, <<Lit(5, -1), Lit(-15, -1)>>}

Offsets == {<<Lit(n, 0), Lit(q, 0)>> : n, q \in -MaxIn..MaxIn} \ {<<Zero, Zero>>}

\* Accumulator contents and force magnitudes drawn together.
AccForce ==
    {[a1x |-> Zero, a1y |-> Zero, a2x |-> Zero, a2y |-> Zero, f |-> f] :
        f \in {Zero, One, Lit(25, -1), Lit(333, -3), G}}
    \cup
    {[a1x |-> Lit(5, -1), a1y |-> Lit(-2, 0), a2x |-> Lit(-25, -2), a2y |-> One, f |-> f] :
        f \in {One, Lit(25, -1)}}

InitForce ==
    /\ \E m1, m2 \in MassVals : \E p \in Origins : \E d \in Offsets : \E af \in AccForce :
          /\ entities =
                << [mass |-> m1, x |-> p[1], y |-> p[2], v_x |-> Zero, v_y |-> Zero,
                    a_x |-> af.a1x, a_y |-> af.a1y],
                   [mass |-> m2, x |-> FAdd(p[1], d[1]), y |-> FAdd(p[2], d[2]),
                    v_x |-> Zero, v_y |-> Zero, a_x |-> af.a2x, a_y |-> af.a2y] >>
          /\ force = af.f
    /\ snap = entities
    /\ total_steps = 100
    /\ i = 0
    /\ pc = "call_force"
    /\ outer = 2
    /\ inner = 1
    /\ upd = 1
    /\ out = <<>>
    /\ calls = <<>>
    /\ dt = MainDt
    /\ rev = Zero

\* force = Get_attraction(*outer, *inner) as main calls it, and the same
\* call with the arguments exchanged.
CallAttraction ==
    /\ pc = "call_force"
    /\ force' = Get_attraction(entities[outer], entities[inner])
    /\ rev' = Get_attraction(entities[inner], entities[outer])
    /\ pc' = "attracted"
    /\ UNCHANGED <<entities, total_steps, i, outer, inner, upd, out, calls, snap, dt>>

\* Add_force(*inner, *outer, force), with the force drawn or the force
\* Get_attraction returned.
CallAddForce ==
    /\ pc \in {"call_force", "attracted"}
    /\ LET r == Add_force(entities[inner], entities[outer], force)
       IN  entities' = [entities EXCEPT ![inner] = r[1], ![outer] = r[2]]
    /\ pc' = "added"
    /\ UNCHANGED <<total_steps, i, outer, inner, upd, force, out, calls, snap, dt, rev>>

NextForce == CallAttraction \/ CallAddForce

SpecForce == InitForce /\ [][NextForce]_vars

\* ------------------------------------------- exact values, for the claims

\* The same number with the mantissa's trailing zeros moved to the exponent.
RECURSIVE Strip(_)
Strip(a) ==
    IF a.m = 0 THEN a
    ELSE IF a.m % 10 = 0 THEN Strip([m |-> a.m \div 10, e |-> a.e + 1])
    ELSE a

\* The exact product of two Reals, as an integer mantissa and an exponent.
XMul(a, b) ==
    LET sa == Strip(a)
        sb == Strip(b)
    IN  Strip([m |-> sa.m * sb.m, e |-> sa.e + sb.e])

\* The exact sum of two such numbers (of comparable magnitude).
XAdd(a, b) ==
    IF a.m = 0 THEN b
    ELSE IF b.m = 0 THEN a
    ELSE LET lo == IF a.e <= b.e THEN a.e ELSE b.e
         IN  Strip([m |-> a.m * Pow10(a.e - lo) + b.m * Pow10(b.e - lo), e |-> lo])

XNeg(a) == [m |-> -a.m, e |-> a.e]

XSub(a, b) == XAdd(a, XNeg(b))

RECURSIVE XSum(_)
XSum(s) == IF s = <<>> THEN Zero ELSE XAdd(s[1], XSum(Tail(s)))

XAbs(a) == [m |-> Abs(a.m), e |-> a.e]

\* a * k for an integer k, and a * 10^n.
XScale(a, k) == Strip([m |-> a.m * k, e |-> a.e])

XShift(a, n) == IF a.m = 0 THEN a ELSE [m |-> a.m, e |-> a.e + n]

RECURSIVE NumDigits(_)
NumDigits(n) == IF n < 10 THEN 1 ELSE 1 + NumDigits(n \div 10)

\* a <= b for a, b >= 0, exactly, whatever their magnitudes.
XLeq(a, b) ==
    IF a.m = 0 THEN TRUE
    ELSE IF b.m = 0 THEN FALSE
    ELSE LET oa == a.e + NumDigits(a.m)
             ob == b.e + NumDigits(b.m)
             lo == IF a.e <= b.e THEN a.e ELSE b.e
         IN  IF oa # ob THEN oa < ob
             ELSE a.m * Pow10(a.e - lo) <= b.m * Pow10(b.e - lo)

XMax(a, b) == IF XLeq(a, b) THEN b ELSE a

\* Total momentum (exact): the sum of mass * velocity, per component.
MomentumX(es) == XSum([n \in 1..Len(es) |-> XMul(es[n].mass, es[n].v_x)])

MomentumY(es) == XSum([n \in 1..Len(es) |-> XMul(es[n].mass, es[n].v_y)])

\* The sum of |mass * velocity|: the scale total momentum is compared to.
MomentumScaleX(es) == XSum([n \in 1..Len(es) |-> XAbs(XMul(es[n].mass, es[n].v_x))])

MomentumScaleY(es) == XSum([n \in 1..Len(es) |-> XAbs(XMul(es[n].mass, es[n].v_y))])

\* ------------------------------------------------------ claims on main

\* A step boundary: every entity of the last step has been updated (or no
\* step has run yet).
StepBoundary == pc \in {"for", "done"}

C2_ReportCount == pc = "done" => Len(out) = 102

C2_Witness == pc = "done" /\ total_steps = 200 /\ Len(out) = 102

\* The unordered pair of a call's two arguments.
PairOf(c) == {c.a, c.b}

AllPairs == {{a, b} : a, b \in 1..N} \ {{a} : a \in 1..N}

\* C4: in every step Get_attraction followed by Add_force is called exactly
\* once for each unordered pair of distinct entities, n * (n - 1) / 2 times,
\* never for a pair (i, i) and never twice for the same pair.
C4_EachPairOnce ==
    /\ \A n \in 1..Len(calls) :
          /\ calls[n].a # calls[n].b
          /\ calls[n].fn = (IF n % 2 = 1 THEN "Get_attraction" ELSE "Add_force")
          /\ n % 2 = 0 => PairOf(calls[n]) = PairOf(calls[n - 1])
    /\ \A n, q \in 1..Len(calls) :
          (n # q /\ calls[n].fn = calls[q].fn) => PairOf(calls[n]) # PairOf(calls[q])
    /\ (pc = "update" \/ (StepBoundary /\ i > 0)) =>
          /\ {PairOf(calls[n]) : n \in 1..Len(calls)} = AllPairs
          /\ Len(calls) = 2 * ((N * (N - 1)) \div 2)

C4_Witness ==
    /\ pc = "update"
    /\ i = 1
    /\ Len(calls) = 6
    /\ calls[6] = [fn |-> "Add_force", a |-> 2, b |-> 3]

\* The start of a step's force-accumulation phase.
AccumStart == pc = "outer" /\ outer = 1

\* C5: at the start of the force-accumulation phase of every step every
\* entity's acceleration accumulator is exactly (0, 0).
C5_AccelerationZeroAtStepStart ==
    AccumStart => \A n \in 1..N : entities[n].a_x = Zero /\ entities[n].a_y = Zero

C5_Witness == AccumStart /\ i = 1 /\ entities[1].v_x.m # 0

\* The report points that i finished steps have produced, in order.
ReportsPlaced ==
    LET k == total_steps \div 100
        steps == (i + k - 1) \div k
    IN  /\ pc = "start" => out = <<>>
        /\ pc # "start" =>
              /\ Len(out) = 1 + steps + (IF pc = "done" THEN 1 ELSE 0)
              /\ out[1].at = "initial"
              /\ \A n \in 1..steps :
                    out[1 + n].at = "step" /\ out[1 + n].step = (n - 1) * k
              /\ pc = "done" =>
                    out[Len(out)].at = "final" /\ out[Len(out)].step = total_steps

\* A report appends one line that shows the entities in the vector's order.
ReportShowsEntities ==
    out' # out =>
        /\ Len(out') = Len(out) + 1
        /\ SubSeq(out', 1, Len(out)) = out
        /\ Len(out'[Len(out')].line) = N
        /\ \A n \in 1..N : out'[Len(out')].line[n] = Show(entities[n])
        /\ entities' = entities

\* C8: a report is written once before any step, once after the step of
\* zero-based index i for exactly the i with i % (total_steps / 100) = 0, and
\* once after the final step, and nowhere else; each shows the entities in
\* the vector's order.
C8_ReportTiming == []ReportsPlaced /\ [][ReportShowsEntities]_vars

C8_Witness ==
    /\ pc = "done"
    /\ total_steps = 200
    /\ out[2].step = 0
    /\ out[3].step = 2
    /\ out[101].step = 198

\* The force-accumulation phase of a step.
InAccum == pc \in {"outer", "inner", "attract", "add"}

\* Mass, position and velocity of every entity are those of the step's start.
AccumFrame ==
    InAccum =>
        /\ Len(entities) = Len(snap)
        /\ \A n \in 1..N :
              /\ entities[n].mass = snap[n].mass
              /\ entities[n].x = snap[n].x
              /\ entities[n].y = snap[n].y
              /\ entities[n].v_x = snap[n].v_x
              /\ entities[n].v_y = snap[n].v_y

\* Get_attraction changes no entity, and an entity's position or velocity
\* changes only once every pair of the step has been accumulated.
AccumOrder ==
    /\ pc = "attract" => entities' = entities
    /\ (\E n \in 1..N : \/ entities'[n].x # entities[n].x
                        \/ entities'[n].y # entities[n].y
                        \/ entities'[n].v_x # entities[n].v_x
                        \/ entities'[n].v_y # entities[n].v_y)
          => {PairOf(calls[n]) : n \in 1..Len(calls)} = AllPairs

\* C10: the force-accumulation phase changes only the accumulators; every
\* pair's force is computed from the positions of the step's start; the
\* vector keeps its size and order.
C10_AccumulationFrame ==
    /\ [](AccumFrame
          /\ (pc = "add" => force = Get_attraction(snap[outer], snap[inner]))
          /\ Len(entities) = Len(MainEntities)
          /\ \A n \in 1..N : entities[n].mass = MainEntities[n].mass)
    /\ [][AccumOrder]_vars

C10_Witness ==
    /\ pc = "add"
    /\ i = 1
    /\ outer = 3
    /\ inner = 2
    /\ entities[1].a_x.m # 0
    /\ entities[1].v_x.m # 0
    /\ entities[1].v_x = snap[1].v_x

\* ---------------------------------------------- claims on Entity::Update

\* C3: after Update(dt), v' = v + a * dt, x' = x + v' * dt with the velocity
\* just updated, and a' = (0, 0); from a = (2, 0), v = (0, 0), x = (0, 0) and
\* dt = 1 it gives v = (2, 0), x = (2, 0), a = (0, 0).
C3_UpdateOrder ==
    pc = "updated" =>
        LET b == snap[1]
            e == entities[1]
        IN  /\ e.v_x = FAdd(b.v_x, FMul(b.a_x, dt))
            /\ e.v_y = FAdd(b.v_y, FMul(b.a_y, dt))
            /\ e.x = FAdd(b.x, FMul(e.v_x, dt))
            /\ e.y = FAdd(b.y, FMul(e.v_y, dt))
            /\ e.a_x = Zero /\ e.a_y = Zero
            /\ e.mass = b.mass
            /\ (/\ b.a_x = Lit(2, 0) /\ b.a_y = Zero
                /\ b.v_x = Zero /\ b.v_y = Zero
                /\ b.x = Zero /\ b.y = Zero
                /\ dt = One)
               => (/\ e.v_x = Lit(2, 0) /\ e.v_y = Zero
                   /\ e.x = Lit(2, 0) /\ e.y = Zero)

C3_Witness ==
    /\ pc = "updated"
    /\ snap[1].a_x = Lit(2, 0) /\ snap[1].a_y = Zero
    /\ snap[1].v_x = Zero /\ snap[1].v_y = Zero
    /\ snap[1].x = Zero /\ snap[1].y = Zero
    /\ dt = One
    /\ entities[1].v_x = Lit(2, 0)
    /\ entities[1].x = Lit(2, 0)
    /\ entities[1].a_x = Zero

\* ------------------------------ claims on Get_attraction and Add_force

\* The exact change Add_force made to each accumulator.
Delta1X == XSub(entities[1].a_x, snap[1].a_x)

Delta1Y == XSub(entities[1].a_y, snap[1].a_y)

Delta2X == XSub(entities[2].a_x, snap[2].a_x)

Delta2Y == XSub(entities[2].a_y, snap[2].a_y)

\* mass_1 * delta_a1 + mass_2 * delta_a2, exactly.
ImbalanceX == XAdd(XMul(snap[1].mass, Delta1X), XMul(snap[2].mass, Delta2X))

ImbalanceY == XAdd(XMul(snap[1].mass, Delta1Y), XMul(snap[2].mass, Delta2Y))

\* The largest of the force and the two mass-weighted accumulators (before
\* and after): the scale rounding is measured on.
RoundingScale(a1, b1, a2, b2) ==
    XMax(XAbs(force),
         XMax(XMul(snap[1].mass, XMax(XAbs(a1), XAbs(b1))),
              XMul(snap[2].mass, XMax(XAbs(a2), XAbs(b2)))))

ZeroAccumulators ==
    /\ snap[1].a_x = Zero /\ snap[1].a_y = Zero
    /\ snap[2].a_x = Zero /\ snap[2].a_y = Zero

SignOfDifference(a, b) == FCmp(b, a)

\* The offset from the first entity to the second, exactly.
TowardX == XSub(snap[2].x, snap[1].x)

TowardY == XSub(snap[2].y, snap[1].y)

\* C9: for a force >= 0, Add_force changes entity_1's acceleration by a
\* vector pointing from entity_1 toward entity_2 and entity_2's by a vector
\* pointing from entity_2 toward entity_1: no component points away, and from
\* zero accumulators and a force > 0 every component has the sign of the
\* offset to the other entity and the change is parallel to that offset to
\* within rounding.  This covers the call main makes.
C9_ForceAttractive ==
    pc = "added" =>
        LET sx == SignOfDifference(snap[1].x, snap[2].x)
            sy == SignOfDifference(snap[1].y, snap[2].y)
        IN  /\ Sgn(Delta1X.m) \in {0, sx}
            /\ Sgn(Delta1Y.m) \in {0, sy}
            /\ Sgn(Delta2X.m) \in {0, -sx}
            /\ Sgn(Delta2Y.m) \in {0, -sy}
            /\ (force.m > 0 /\ ZeroAccumulators) =>
                  /\ Sgn(Delta1X.m) = sx /\ Sgn(Delta1Y.m) = sy
                  /\ Sgn(Delta2X.m) = -sx /\ Sgn(Delta2Y.m) = -sy
                  /\ XLeq(XShift(XAbs(XSub(XMul(Delta1X, TowardY), XMul(Delta1Y, TowardX))),
                                 Digits - 1),
                          XScale(XAdd(XAbs(XMul(Delta1X, TowardY)),
                                      XAbs(XMul(Delta1Y, TowardX))), 4))
                  /\ XLeq(XShift(XAbs(XSub(XMul(Delta2X, TowardY), XMul(Delta2Y, TowardX))),
                                 Digits - 1),
                          XScale(XAdd(XAbs(XMul(Delta2X, TowardY)),
                                      XAbs(XMul(Delta2Y, TowardX))), 4))

C9_Witness ==
    /\ pc = "added"
    /\ rev.m > 0
    /\ force = rev
    /\ ZeroAccumulators
    /\ TowardX.m > 0 /\ TowardY.m < 0
    /\ Delta1X.m > 0 /\ Delta1Y.m < 0
    /\ Delta2X.m < 0 /\ Delta2Y.m > 0

====
